---- MODULE Spec2Model ----
(***************************************************************************)
(* Model of src/main.py: the paginated fetchers of hh.ru and superjob.ru,  *)
(* the salary estimator and the two normalizers, the per-language          *)
(* aggregation loops, and main() with its two exception handlers.          *)
(*                                                                         *)
(* Python values are represented as follows.                               *)
(*   None (an optional integer)  : the integer -1 (salary bounds and       *)
(*                                 estimates are never negative)           *)
(*   a listing (dict)            : a record [has_salary, currency, from, to]*)
(*                                 for hh has_salary = FALSE is            *)
(*                                 vacancy['salary'] = None; sj listings   *)
(*                                 carry the three fields flat             *)
(*   a statistic row (list of 4) : <<language, found, processed, average>> *)
(*   an exception in flight      : exc, the name of its class              *)
(***************************************************************************)
EXTENDS Integers, Sequences, FiniteSets, TLC

\* ---------------------------------------------------------------- bounds

\* Number of languages of programming_languages that are crawled.
NumLangs == 2

\* Page indices from MaxPage on are identified (the page counter saturates):
\* the code reads the index only in the hh stop test, and the endpoint can
\* always declare a larger page count.
MaxPage == 2

\* The endpoint holds at most this many listings for one (source, language).
MaxListings == 2

\* Largest salary bound tried on the estimator and the normalizers alone.
MaxBound == 7

\* ------------------------------------------------------ program constants

None == -1

vacancy_count_per_page == 10

programming_languages ==
    <<"JavaScript", "Python", "Java", "C#", "PHP", "C++", "C", "Ruby", "Go">>

languages == SubSeq(programming_languages, 1, NumLangs)

hh_table_name == "HeadHunter Moscow"

sj_table_name == "SuperJob Moscow"

\* The four column labels (Cyrillic in the source, transliterated here).
table_header ==
    <<"Yazyk programmirovaniya", "Vakansiy naydeno",
      "Vakansiy obrabotano", "Srednyaya zarplata">>

NoException == "NoException"

\* ------------------------------------------------------------ estimator

\* Python truthiness of an optional integer: None and 0 are both falsy.
Truthy(x) == x # None /\ x # 0

\* int(x * 1.2) and int(x * 0.8) for a non-negative integer x.  The double
\* product, truncated, equals the exact quotient below for every x up to
\* 2 000 000 (by enumeration), far above the bounds used here.
MulTrunc12(x) == (x * 12) \div 10

MulTrunc08(x) == (x * 8) \div 10

\* int((a + b) / 2) for non-negative integers: true division, truncated.
HalfTrunc(s) == s \div 2

predict_salary(salary_from, salary_to) ==
    IF Truthy(salary_from) /\ Truthy(salary_to)
    THEN HalfTrunc(salary_from + salary_to)
    ELSE IF Truthy(salary_from) THEN MulTrunc12(salary_from)
    ELSE IF Truthy(salary_to) THEN MulTrunc08(salary_to)
    ELSE None

\* ----------------------------------------------------------- normalizers

\* predict_rub_salary_hh with the salary and currency tests left out.
predict_rub_salary_hh_nogate(v) == predict_salary(v.from, v.to)

predict_rub_salary_hh(v) ==
    IF v.has_salary /\ v.currency = "RUR"
    THEN predict_salary(v.from, v.to)
    ELSE None

predict_rub_salary_sj(v) ==
    IF v.currency = "rub"
    THEN predict_salary(v.from, v.to)
    ELSE None

predict_rub_salary(src, v) ==
    IF src = "hh" THEN predict_rub_salary_hh(v) ELSE predict_rub_salary_sj(v)

\* ------------------------------------------------------------- listings

Currencies == {"RUR", "rub", "USD"}

OptBounds(max) == {None} \cup (0 .. max)

\* Salary bounds of the listings the aggregation runs are fed: absent or 1,
\* which give every kind of estimate: none, 0 (an upper bound of 1 alone)
\* and positive.  The estimator itself is run on 0 .. MaxBound.
SalaryBounds == {None, 1}

NoSalary == [has_salary |-> FALSE, currency |-> "", from |-> None, to |-> None]

WithSalary(curs, bounds) ==
    [has_salary : {TRUE}, currency : curs, from : bounds, to : bounds]

\* The listings an endpoint of source src may return.
Listings(src, curs, bounds) ==
    IF src = "hh" THEN {NoSalary} \cup WithSalary(curs, bounds)
    ELSE WithSalary(curs, bounds)

LocalCurrency(src) == IF src = "hh" THEN "RUR" ELSE "rub"

\* ---------------------------------------------------------------- state

VARIABLES
    pc,                     \* position of the run (see the actions)
    source,                 \* "hh" while get_hh_statistics runs, then "sj"
    lang_idx,               \* index of `language` in `languages`
    page,                   \* the fetcher's page counter
    page_content,           \* the parsed body of the last response
    pending,                \* listings of page_content not yet yielded
    vacancy,                \* the listing last yielded
    vacancy_count,          \* total-match count last yielded with a listing
    approximate_rub_salary, \* estimate of the listing last yielded
    vacancies_processed,
    salaries_sum,
    language_statistics,    \* rows of the running get_*_statistics call
    hh_statistics,          \* rows returned by get_hh_statistics
    sj_statistics,          \* rows returned by get_sj_statistics
    exc,                    \* exception raised and not yet handled, or the
                            \* one that ended the run
    exit_code,              \* None while the process runs
    stdout,                 \* tables written by print
    stderr,                 \* messages written by the logger
    requested,              \* page indices requested in the current crawl
    yielded,                \* listings yielded in the current crawl
    fault,                  \* what the endpoint did wrong so far
    uniform_pages           \* every response of the crawl declared 2 pages

vars == <<pc, source, lang_idx, page, page_content, pending, vacancy,
          vacancy_count, approximate_rub_salary, vacancies_processed,
          salaries_sum, language_statistics, hh_statistics, sj_statistics,
          exc, exit_code, stdout, stderr, requested, yielded, fault,
          uniform_pages>>

\* Locals of the fetcher's frame, with the record of its crawl.
fetcher_vars == <<page, page_content, pending, requested, yielded,
                  uniform_pages>>

\* Locals of the frame of get_hh_statistics / get_sj_statistics.
aggregator_vars == <<lang_idx, vacancy, vacancy_count,
                     approximate_rub_salary, vacancies_processed,
                     salaries_sum, language_statistics>>

\* Locals of main, and the process.
main_vars == <<source, hh_statistics, sj_statistics, exit_code, stdout,
               stderr>>

Sources == {"hh", "sj"}

Min(a, b) == IF a < b THEN a ELSE b

NoContent == [found |-> 0, pages |-> 0, more |-> FALSE, complete |-> TRUE]

FreshFetcher ==
    /\ page' = 0
    /\ page_content' = NoContent
    /\ pending' = 0
    /\ requested' = {}
    /\ yielded' = 0
    /\ uniform_pages' = TRUE

FreshAggregator ==
    /\ lang_idx' = 1
    /\ vacancy' = NoSalary
    /\ vacancy_count' = None
    /\ approximate_rub_salary' = None
    /\ vacancies_processed' = 0
    /\ salaries_sum' = 0
    /\ language_statistics' = <<>>

Init ==
    /\ pc = "language"
    /\ source = "hh"
    /\ lang_idx = 1
    /\ page = 0
    /\ page_content = NoContent
    /\ pending = 0
    /\ vacancy = NoSalary
    /\ vacancy_count = None
    /\ approximate_rub_salary = None
    /\ vacancies_processed = 0
    /\ salaries_sum = 0
    /\ language_statistics = <<>>
    /\ hh_statistics = <<>>
    /\ sj_statistics = <<>>
    /\ exc = NoException
    /\ exit_code = None
    /\ stdout = <<>>
    /\ stderr = <<>>
    /\ requested = {}
    /\ yielded = 0
    /\ fault = "none"
    /\ uniform_pages = TRUE

\* ------------------------------------------------------------- endpoint

StatusCodes == {200, 503}

\* Total-match counts a response may carry.
FoundValues == {MaxListings}

\* Page counts an hh response may declare.
PagesValues == 0 .. MaxPage + 2

\* A response of the endpoint of src when `left` listings remain to be
\* served: a status, and a body that is JSON or not, holds the listing array
\* or not, and holds the pagination field ('pages' / 'more') or not.
OkBodies(src, left) ==
    [status : {200}, json : {TRUE}, has_items : {TRUE}, complete : {TRUE},
     items : 0 .. Min(vacancy_count_per_page, left),
     found : FoundValues,
     pages : IF src = "hh" THEN PagesValues ELSE {0},
     more : IF src = "sj" THEN BOOLEAN ELSE {FALSE}]

BlankBody(status, json, has_items, complete) ==
    [status |-> status, json |-> json, has_items |-> has_items,
     complete |-> complete, items |-> 0, found |-> MaxListings,
     pages |-> 0, more |-> FALSE]

Responses(src, left) ==
    OkBodies(src, left)
        \cup {BlankBody(st, TRUE, TRUE, TRUE) : st \in StatusCodes \ {200}}
        \cup {BlankBody(200, FALSE, FALSE, FALSE),
              BlankBody(200, TRUE, FALSE, TRUE),
              BlankBody(200, TRUE, TRUE, FALSE)}

Malformed(r) == ~r.json \/ ~r.has_items \/ ~r.complete

\* ------------------------------------------------------------- fetchers

\* raise_for_status that lets every status pass.
raise_for_status_never(status) == NoException

\* requests.Response.raise_for_status: HTTPError for a 4xx or 5xx status.
raise_for_status(status) ==
    IF 400 <= status /\ status < 600 THEN "HTTPError" ELSE NoException

\* The hh stop test off by one: it asks for one page too many.
hh_last_page_late(p, content) == p >= content.pages

\* fetch_hh_vacancies: the test that ends the page loop.
hh_last_page(p, content) == p >= content.pages - 1

\* fetch_sj_vacancies: the test that ends the page loop.
sj_last_page(p, content) == ~content.more

last_page(src, p, content) ==
    IF src = "hh" THEN hh_last_page(p, content) ELSE sj_last_page(p, content)

\* next(count()), with the indices from MaxPage on identified.
NextPage(p) == IF p < MaxPage THEN p + 1 ELSE p

\* An exception leaves the fetcher and the aggregation loop: nothing in
\* get_*_statistics catches it, both frames are unwound (their locals are
\* gone) and it reaches main.
Raise(e) ==
    /\ exc' = e
    /\ pc' = "raised"
    /\ FreshFetcher
    /\ FreshAggregator

\* What the code does with response r to the request for the current page:
\* raise_for_status(), json(), and the lookup of the listing array.
Receive(r) ==
    IF raise_for_status(r.status) # NoException
    THEN Raise(raise_for_status(r.status))
    ELSE IF ~r.json THEN Raise("JSONDecodeError")
    ELSE IF ~r.has_items THEN Raise("KeyError")
    ELSE /\ page_content' = [found |-> r.found, pages |-> r.pages,
                             more |-> r.more, complete |-> r.complete]
         /\ pending' = r.items
         /\ requested' = requested \cup {page}
         /\ uniform_pages' = (uniform_pages /\ r.pages = 2)
         /\ pc' = "items"
         /\ UNCHANGED <<exc, page, yielded, aggregator_vars>>

\* One iteration of `for language in languages` starts: the counters are
\* reset and a fresh fetcher is created, its page counter at 0.
StartLanguage ==
    /\ pc = "language"
    /\ lang_idx <= Len(languages)
    /\ vacancies_processed' = 0
    /\ salaries_sum' = 0
    /\ FreshFetcher
    /\ pc' = "request"
    /\ UNCHANGED <<lang_idx, vacancy, vacancy_count, approximate_rub_salary,
                   language_statistics, main_vars, exc, fault>>

\* s.get for the current page, and the handling of its response.
RequestPage ==
    /\ pc = "request"
    /\ \E r \in Responses(source, MaxListings - yielded) :
         /\ fault' = IF r.status # 200 THEN "status"
                     ELSE IF Malformed(r) THEN "body"
                     ELSE fault
         /\ Receive(r)
    /\ UNCHANGED main_vars

\* `if approximate_rub_salary:` in the aggregation loop.
count_if_truthy(estimate) == Truthy(estimate)

\* The fetcher yields one listing with the page's total; the body of the
\* aggregation loop normalizes it and counts it.  (A listing is a non-empty
\* JSON object, so `if vacancy` holds.)
YieldVacancy ==
    /\ pc = "items"
    /\ pending > 0
    /\ \E v \in Listings(source, {LocalCurrency(source), "USD"}, SalaryBounds) :
         /\ vacancy' = v
         /\ vacancy_count' = page_content.found
         /\ approximate_rub_salary' = predict_rub_salary(source, v)
         /\ IF count_if_truthy(predict_rub_salary(source, v))
            THEN /\ vacancies_processed' = vacancies_processed + 1
                 /\ salaries_sum' = salaries_sum + predict_rub_salary(source, v)
            ELSE UNCHANGED <<vacancies_processed, salaries_sum>>
    /\ pending' = pending - 1
    /\ yielded' = yielded + 1
    /\ UNCHANGED <<pc, lang_idx, page, page_content, language_statistics,
                   requested, uniform_pages, main_vars, exc, fault>>

\* The page's listings are exhausted: the stop test, then the next page or
\* the end of the fetcher.
CheckLastPage ==
    /\ pc = "items"
    /\ pending = 0
    /\ IF ~page_content.complete
       THEN Raise("KeyError")
       ELSE IF last_page(source, page, page_content)
       THEN /\ pc' = "average"
            /\ UNCHANGED <<exc, fetcher_vars, aggregator_vars>>
       ELSE /\ pc' = "request"
            /\ page' = NextPage(page)
            /\ UNCHANGED <<exc, page_content, pending, requested, yielded,
                           uniform_pages, aggregator_vars>>
    /\ UNCHANGED <<main_vars, fault>>

\* ----------------------------------------------------------- aggregator

\* int(average_rub_salary if vacancies_processed else 0), where
\* average_rub_salary holds salaries_sum / vacancies_processed.
average_column(sum, processed) ==
    IF processed # 0 THEN sum \div processed ELSE 0

statistic_row(language, found, processed, sum) ==
    <<language, found, processed, average_column(sum, processed)>>

\* The fetcher is exhausted: the division, evaluated before the row is
\* built, raises ZeroDivisionError when nothing was processed; otherwise the
\* row is appended and the loop goes on to the next language.  (With
\* vacancies_processed > 0 a listing was yielded in this crawl, so
\* vacancy_count is bound.)
AppendStatistic ==
    /\ pc = "average"
    /\ IF vacancies_processed = 0
       THEN Raise("ZeroDivisionError")
       ELSE /\ language_statistics' =
                  Append(language_statistics,
                         statistic_row(languages[lang_idx], vacancy_count,
                                       vacancies_processed, salaries_sum))
            /\ lang_idx' = lang_idx + 1
            /\ pc' = "language"
            /\ FreshFetcher
            /\ UNCHANGED <<exc, vacancy, vacancy_count,
                           approximate_rub_salary, vacancies_processed,
                           salaries_sum>>
    /\ UNCHANGED <<main_vars, fault>>

\* `return language_statistics`: main binds the result and, after hh, calls
\* get_sj_statistics, whose locals are fresh.
ReturnStatistics ==
    /\ pc = "language"
    /\ lang_idx > Len(languages)
    /\ IF source = "hh"
       THEN /\ hh_statistics' = language_statistics
            /\ source' = "sj"
            /\ pc' = "language"
            /\ UNCHANGED sj_statistics
       ELSE /\ sj_statistics' = language_statistics
            /\ pc' = "print"
            /\ UNCHANGED <<hh_statistics, source>>
    /\ FreshAggregator
    /\ UNCHANGED <<fetcher_vars, exc, exit_code, stdout, stderr, fault>>

\* ----------------------------------------------------------------- main

\* create_table: the header row followed by the statistic rows, titled.
create_table(table_name, table_content) ==
    [title |-> table_name, rows |-> <<table_header>> \o table_content]

\* The two tables in the wrong order.
terminal_tables_swapped(hh, sj) ==
    <<create_table(sj_table_name, sj), create_table(hh_table_name, hh)>>

\* The tuple of the two rendered tables.
terminal_tables(hh, sj) ==
    <<create_table(hh_table_name, hh), create_table(sj_table_name, sj)>>

\* Both tables are built, then one print call writes them; main returns.
PrintTables ==
    /\ pc = "print"
    /\ stdout' = stdout \o terminal_tables(hh_statistics, sj_statistics)
    /\ exit_code' = 0
    /\ pc' = "exited"
    /\ UNCHANGED <<source, hh_statistics, sj_statistics, stderr,
                   fetcher_vars, aggregator_vars, exc, fault>>

\* The status main passes to sys.exit in its HTTPError handler.
http_error_exit_code == 1

\* `except requests.exceptions.HTTPError`: one logged message and
\* sys.exit(1).  SystemExit is not an Exception, so logger.catch lets it
\* through.
ExceptHTTPError ==
    /\ pc = "raised"
    /\ exc = "HTTPError"
    /\ stderr' = Append(stderr, "HTTP request error, restart the script")
    /\ exit_code' = http_error_exit_code
    /\ pc' = "exited"
    /\ UNCHANGED <<source, hh_statistics, sj_statistics, stdout,
                   fetcher_vars, aggregator_vars, exc, fault>>

\* @logger.catch on main: any other Exception is logged and swallowed, main
\* returns None and the interpreter exits with status 0.
LoggerCatch ==
    /\ pc = "raised"
    /\ exc # "HTTPError"
    /\ stderr' = Append(stderr, exc)
    /\ exit_code' = 0
    /\ pc' = "exited"
    /\ UNCHANGED <<source, hh_statistics, sj_statistics, stdout,
                   fetcher_vars, aggregator_vars, exc, fault>>

Next ==
    \/ StartLanguage
    \/ RequestPage
    \/ YieldVacancy
    \/ CheckLastPage
    \/ AppendStatistic
    \/ ReturnStatistics
    \/ PrintTables
    \/ ExceptHTTPError
    \/ LoggerCatch

Spec == Init /\ [][Next]_vars

\* The run is sequential and blocking: whenever a step is possible, the
\* interpreter takes one.
FairSpec == Spec /\ WF_vars(Next)

\* ------------------------------------------- the estimator run on its own

\* predict_salary and the two normalizers are pure: they are applied once
\* to every listing with bounds in None, 0 .. MaxBound and every currency.
EstimatorInit ==
    /\ pc = "call"
    /\ source \in Sources
    /\ vacancy \in Listings(source, Currencies, OptBounds(MaxBound))
    /\ lang_idx = 1
    /\ page = 0
    /\ page_content = NoContent
    /\ pending = 0
    /\ vacancy_count = None
    /\ approximate_rub_salary = None
    /\ vacancies_processed = 0
    /\ salaries_sum = 0
    /\ language_statistics = <<>>
    /\ hh_statistics = <<>>
    /\ sj_statistics = <<>>
    /\ exc = NoException
    /\ exit_code = None
    /\ stdout = <<>>
    /\ stderr = <<>>
    /\ requested = {}
    /\ yielded = 0
    /\ fault = "none"
    /\ uniform_pages = TRUE

\* predict_salary(salary['from'], salary['to']) on the listing's bounds.
CallPredictSalary ==
    /\ pc = "call"
    /\ vacancy.has_salary
    /\ approximate_rub_salary' = predict_salary(vacancy.from, vacancy.to)
    /\ pc' = "predict_salary"
    /\ UNCHANGED <<main_vars, fetcher_vars, lang_idx, vacancy_count,
                   vacancies_processed, salaries_sum, language_statistics,
                   vacancy, exc, fault>>

\* predict_rub_salary_hh(vacancy) or predict_rub_salary_sj(vacancy).
CallPredictRubSalary ==
    /\ pc = "call"
    /\ approximate_rub_salary' = predict_rub_salary(source, vacancy)
    /\ pc' = "predict_rub_salary"
    /\ UNCHANGED <<main_vars, fetcher_vars, lang_idx, vacancy_count,
                   vacancies_processed, salaries_sum, language_statistics,
                   vacancy, exc, fault>>

EstimatorNext ==
    \/ CallPredictSalary
    \/ CallPredictRubSalary

EstimatorSpec == EstimatorInit /\ [][EstimatorNext]_vars

\* =================================================================
\* Properties
\* =================================================================

Crawling == pc \in {"request", "items"}

TransportErrors == {"HTTPError", "JSONDecodeError", "KeyError"}

\* C1: for every language whose crawl has ended, the next step appends a
\* statistic row for that language whose average is 0 when nothing was
\* processed and otherwise salaries_sum / vacancies_processed truncated;
\* in particular no error is raised when nothing was processed.
C1_RowWithZeroOrAverage ==
    [][pc = "average" =>
         /\ exc' = NoException
         /\ language_statistics' =
              Append(language_statistics,
                     <<languages[lang_idx], vacancy_count, vacancies_processed,
                       IF vacancies_processed = 0 THEN 0
                       ELSE salaries_sum \div vacancies_processed>>)]_vars

\* C2: predict_salary decides by presence (a bound is absent only when it is
\* None, 0 is present): both present gives (lower + upper) // 2, only lower
\* gives floor(lower * 1.2), only upper gives floor(upper * 0.8), neither
\* gives None.
C2_EstimateByPresence ==
    pc = "predict_salary" =>
        approximate_rub_salary =
            IF vacancy.from # None /\ vacancy.to # None
            THEN (vacancy.from + vacancy.to) \div 2
            ELSE IF vacancy.from # None THEN (vacancy.from * 6) \div 5
            ELSE IF vacancy.to # None THEN (vacancy.to * 4) \div 5
            ELSE None

\* C3: once a page request was answered with a non-success status, the run
\* is aborted by an HTTPError (no request is pending or answered any more,
\* hence no retry), nothing was written to standard output, and the process
\* exits with code 1.
C3_HttpErrorAborts ==
    fault = "status" =>
        /\ pc \in {"raised", "exited"}
        /\ exc = "HTTPError"
        /\ stdout = <<>>
        /\ exit_code = IF pc = "exited" THEN 1 ELSE None

C3_Witness ==
    /\ fault = "status"
    /\ pc = "exited"
    /\ exit_code = 1
    /\ stdout = <<>>
    /\ Len(stderr) = 1

\* C4: once a response body was malformed (not JSON, or lacking the listing
\* array or the pagination field), the run aborts as for a non-success
\* status: nothing is printed and the process exits with a non-zero code.
C4_MalformedBodyAborts ==
    fault = "body" =>
        /\ pc \in {"items", "raised", "exited"}
        /\ stdout = <<>>
        /\ pc = "exited" => exit_code \notin {None, 0}

\* C5: in a crawl the pages requested are 0, 1, 2, ... with none skipped and
\* page 0 first; a request is pending only if the previous response did not
\* meet the source's stop condition (hh: index >= pages - 1, sj: 'more'
\* false), and the crawl ends only on a response that meets it; an hh
\* endpoint that declares 2 pages throughout is requested for exactly the
\* pages 0 and 1.
C5_PagesInOrderUntilStop ==
    /\ pc \in {"items", "average"} => requested = 0 .. page
    /\ pc = "request" =>
         \/ requested = 0 .. (page - 1)
         \/ page = MaxPage /\ requested = 0 .. MaxPage
    /\ pc = "request" /\ requested # {} =>
         IF source = "hh"
         THEN ~((IF page \in requested THEN page ELSE page - 1)
                    >= page_content.pages - 1)
         ELSE page_content.more
    /\ pc = "average" =>
         IF source = "hh"
         THEN page >= page_content.pages - 1
         ELSE ~page_content.more
    /\ pc = "average" /\ source = "hh" /\ uniform_pages => requested = {0, 1}

C5_Witness ==
    /\ pc = "average"
    /\ source = "hh"
    /\ uniform_pages
    /\ requested = {0, 1}
    /\ yielded > 0

\* C6: every crawl that has started eventually ends, whatever the endpoint
\* answers.
C6_CrawlTerminates == Crawling ~> ~Crawling

\* C7: a get_*_statistics call that is not ended by a transport error
\* returns one row per language, in input order, the rows being built one
\* language after the other from counters that start at zero for each
\* language.
C7_OneRowPerLanguage ==
    /\ exc \in {NoException} \cup TransportErrors
    /\ \A rows \in {hh_statistics, sj_statistics} :
         rows # <<>> =>
           /\ Len(rows) = Len(languages)
           /\ \A i \in 1 .. Len(rows) : rows[i][1] = languages[i]
    /\ pc \in {"language", "request", "items", "average"} =>
         /\ \A i \in 1 .. Len(language_statistics) :
              language_statistics[i][1] = languages[i]
         /\ Len(language_statistics) = lang_idx - 1
    /\ pc \in {"request", "items", "average"} =>
         vacancies_processed <= yielded
    /\ source = "sj" => hh_statistics # <<>>
    /\ pc = "print" => sj_statistics # <<>>

\* C8: standard output holds nothing, or exactly the hh table followed by
\* the sj table; a run ended by an exception has printed nothing.
C8_AllOrNothingOutput ==
    /\ \/ stdout = <<>>
       \/ /\ pc = "exited"
          /\ stdout = <<[title |-> "HeadHunter Moscow",
                         rows |-> <<table_header>> \o hh_statistics],
                        [title |-> "SuperJob Moscow",
                         rows |-> <<table_header>> \o sj_statistics]>>
    /\ exc # NoException => stdout = <<>>
    /\ pc = "exited" /\ exc = NoException => Len(stdout) = 2

C8_Witness ==
    /\ pc = "exited"
    /\ source = "sj"
    /\ Len(hh_statistics) = Len(languages)
    /\ exc # NoException
    /\ stdout = <<>>

\* C9: a normalizer returns None for every listing whose currency is not
\* the source's own ('RUR' for hh, 'rub' for sj), whatever its bounds, hh
\* also when the listing has no salary; otherwise it returns what
\* predict_salary returns for the listing's bounds.
C9_CurrencyGate ==
    pc = "predict_rub_salary" =>
        IF source = "hh" /\ ~vacancy.has_salary
        THEN approximate_rub_salary = None
        ELSE IF vacancy.currency # (IF source = "hh" THEN "RUR" ELSE "rub")
        THEN approximate_rub_salary = None
        ELSE approximate_rub_salary = predict_salary(vacancy.from, vacancy.to)

C9_Witness ==
    /\ pc = "predict_rub_salary"
    /\ source = "hh"
    /\ vacancy.has_salary
    /\ vacancy.currency = "USD"
    /\ vacancy.from = 1
    /\ vacancy.to = 2
    /\ approximate_rub_salary = None

\* C10: each yielded listing whose estimate is present (any integer, 0
\* included) adds 1 to vacancies_processed and its estimate to salaries_sum;
\* a listing without an estimate changes neither.
C10_PresentEstimateCounted ==
    [][yielded' = yielded + 1 =>
         IF approximate_rub_salary' # None
         THEN /\ vacancies_processed' = vacancies_processed + 1
              /\ salaries_sum' = salaries_sum + approximate_rub_salary'
         ELSE /\ vacancies_processed' = vacancies_processed
              /\ salaries_sum' = salaries_sum]_vars

====
